---- MODULE Spec2Model ----
(***************************************************************************)
(* Model of src/src/index.py: one invocation of lambda_handler, with the   *)
(* bucket-policy custom-resource flow (apply_bucket_policy and             *)
(* send_cfn_response) and the S3 ingestion flow (fetch, summarize with     *)
(* retries, store, notify).                                                *)
(*                                                                         *)
(* Python dicts are functions whose DOMAIN is the set of keys present, so  *)
(* d[k] on a missing key (KeyError) and d.get(k) are told apart.  External *)
(* services (S3, SSM, the LLM endpoint, DynamoDB, SNS, the callback URL)   *)
(* are the environment: every call's outcome is chosen with \E.            *)
(***************************************************************************)
EXTENDS Integers, Sequences, FiniteSets, TLC

VARIABLES
    event,              \* the event dict handed to lambda_handler
    ENABLE_OPENROUTER,  \* feature flags, read once at module load
    ENABLE_DYNAMODB,
    ENABLE_SNS,
    environ,            \* names of the environment variables that are set
    pc,                 \* position of the invocation in the code
    flow,               \* which flow the dispatcher entered
    bucket, key,        \* locals of lambda_handler (lines 133-134)
    text, summary,      \* locals of lambda_handler (lines 137, 144, 149)
    attempt,            \* tenacity's attempt number inside call_openrouter
    exc,                \* str(e) of the exception being handled
    steps,              \* history: the steps of the ingestion flow that ended
    calls,              \* history: external calls issued, in order
    reports,            \* history: invocations of send_cfn_response
    escaped,            \* history: functions an exception propagated out of
    result              \* what lambda_handler returned

vars == <<event, ENABLE_OPENROUTER, ENABLE_DYNAMODB, ENABLE_SNS, environ, pc,
          flow, bucket, key, text, summary, attempt, exc, steps, calls,
          reports, escaped, result>>

----------------------------------------------------------------------------
(* Bounds of the model *)

\* largest number of records in an ingestion event
MaxRecords == 2

----------------------------------------------------------------------------
(* Python dict and JSON helpers *)

\* d.get(k, default)
Get(d, k, default) == IF k \in DOMAIN d THEN d[k] ELSE default

\* the dicts {} and {k: v}, and the ways a key can be missing or present
EmptyDict == <<>>
Opt(k, values) == {EmptyDict} \cup {k :> v : v \in values}

\* json.dumps of a str without characters that need escaping
JsonDumpsStr(s) == "\"" \o s \o "\""

\* context.log_stream_name
log_stream_name == "2026/10/30/[$LATEST]abcdef"

----------------------------------------------------------------------------
(* Events *)

BucketNameProp == "BucketName" :> "b1"
PolicyDocumentProp == "PolicyDocument" :> "policy1"

S3Full(b, k) == [bucket |-> [name |-> b], object |-> [key |-> k]]
S3NoObject == [bucket |-> [name |-> "b1"]]

\* the Records lists tried: missing s3, empty s3, s3 without object, without
\* bucket, without the bucket's name, without the object's key, complete
\* first record, and lists of up to MaxRecords complete records
RecordChoices ==
    { <<>>,
      << [eventName |-> "ObjectCreated:Put"] >>,
      << [s3 |-> EmptyDict] >>,
      << [s3 |-> S3NoObject] >>,
      << [s3 |-> [object |-> [key |-> "k1.txt"]]] >>,
      << [s3 |-> [bucket |-> EmptyDict, object |-> [key |-> "k1.txt"]]] >>,
      << [s3 |-> [bucket |-> [name |-> "b1"], object |-> EmptyDict]] >> }
    \cup { [i \in 1..n |-> [s3 |-> S3Full(IF i = 1 THEN "b1" ELSE "b2",
                                            IF i = 1 THEN "k1.txt" ELSE "k2.txt")]]
           : n \in 1..MaxRecords }

\* StackId, RequestId, LogicalResourceId, PhysicalResourceId, ResponseURL:
\* each present or missing
CallbackFields ==
    { a @@ b @@ c @@ d @@ u :
        a \in Opt("StackId", {"stack1"}),
        b \in Opt("RequestId", {"req1"}),
        c \in Opt("LogicalResourceId", {"logical1"}),
        d \in Opt("PhysicalResourceId", {"phys1"}),
        u \in Opt("ResponseURL", {"http://x"}) }

\* RequestType and ResourceProperties: missing, empty (falsy) or set
RequestHeads ==
    { t @@ p :
        t \in Opt("RequestType", {"", "Create", "Update", "Delete", "Replace"}),
        p \in Opt("ResourceProperties",
                  {EmptyDict, BucketNameProp, PolicyDocumentProp,
                   BucketNameProp @@ PolicyDocumentProp}) }

\* mutant of IsCustomResource: the S3 shape is tested first, so an event that
\* carries Records is never a custom-resource event
IsCustomResource_RecordsFirst(e) ==
    /\ "Records" \notin DOMAIN e
    /\ "RequestType" \in DOMAIN e
    /\ e["RequestType"] # ""
    /\ "ResourceProperties" \in DOMAIN e
    /\ DOMAIN e["ResourceProperties"] # {}
    /\ "BucketName" \in DOMAIN e["ResourceProperties"]

\* line 125: event.get('RequestType') and event.get('ResourceProperties')
\*           and 'BucketName' in event['ResourceProperties']
IsCustomResource(e) ==
    /\ "RequestType" \in DOMAIN e
    /\ e["RequestType"] # ""
    /\ "ResourceProperties" \in DOMAIN e
    /\ DOMAIN e["ResourceProperties"] # {}
    /\ "BucketName" \in DOMAIN e["ResourceProperties"]

\* line 129: not event.get('Records') or not event['Records'][0].get('s3')
InvalidS3Event(e) ==
    \/ ~ ("Records" \in DOMAIN e /\ Len(e["Records"]) > 0)
    \/ ~ ("s3" \in DOMAIN e["Records"][1] /\ DOMAIN e["Records"][1]["s3"] # {})

\* line 133 binds bucket unless the first record lacks bucket or its name
HasBucketName(e) ==
    LET s == e["Records"][1]["s3"] IN
    "bucket" \in DOMAIN s /\ "name" \in DOMAIN s["bucket"]

\* lines 133-134 raise KeyError unless the first record names bucket and key
HasBucketAndKey(e) ==
    LET s == e["Records"][1]["s3"] IN
    /\ "bucket" \in DOMAIN s /\ "name" \in DOMAIN s["bucket"]
    /\ "object" \in DOMAIN s /\ "key" \in DOMAIN s["object"]

\* str(e) of the KeyError of lines 133-134: the repr of the first missing key
RecordKeyError(e) ==
    LET s == e["Records"][1]["s3"] IN
    IF "bucket" \notin DOMAIN s THEN "'bucket'"
    ELSE IF "name" \notin DOMAIN s["bucket"] THEN "'name'"
    ELSE IF "object" \notin DOMAIN s THEN "'object'"
    ELSE "'key'"

\* custom-resource events vary the callback fields; the other events vary
\* the Records list
Events ==
    { h @@ c @@ r :
        h \in {x \in RequestHeads : IsCustomResource(x)},
        c \in CallbackFields,
        r \in Opt("Records", {<< [s3 |-> S3Full("b1", "k1.txt")] >>}) }
    \cup
    { h @@ c @@ r :
        h \in {x \in RequestHeads : ~ IsCustomResource(x)},
        c \in {EmptyDict},
        r \in Opt("Records", RecordChoices) }

----------------------------------------------------------------------------
(* Texts.  A text is the first len characters of a named document; a slice *)
(* s[:n] keeps the document and shortens the length.                       *)

Min(a, b) == IF a < b THEN a ELSE b

Slice(s, n) == [s EXCEPT !.len = Min(s.len, n)]

NoText == [doc |-> "", len |-> 0]

\* line 144: summary = "Résumé non généré."
Placeholder == [doc |-> "Résumé non généré.", len |-> 18]

----------------------------------------------------------------------------
(* Results and history *)

NoResult == [kind |-> "pending", statusCode |-> 0, body |-> ""]

\* apply_bucket_policy has no return statement: line 126 returns None
ReturnNone == [kind |-> "None", statusCode |-> 0, body |-> ""]

\* lines 190-193
ReturnSuccess ==
    [kind |-> "dict", statusCode |-> 200, body |-> JsonDumpsStr("Success")]

\* lines 198-201
ReturnLambdaError ==
    [kind |-> "dict", statusCode |-> 500, body |-> JsonDumpsStr("Lambda error")]

Call(svc, arg, ok) == [svc |-> svc, arg |-> arg, ok |-> ok]

\* a step of the ingestion flow that ended, with str(e) of the exception its
\* try block raised, "" when it raised none
Step(name, error) == [name |-> name, error |-> error]

CallsTo(svc) == SelectSeq(calls, LAMBDA c : c.svc = svc)

----------------------------------------------------------------------------
(* send_cfn_response, lines 47-79 *)

\* mutant of CfnResponseBody: the caller-supplied PhysicalResourceId is ignored
CfnResponseBody_LogStreamId(e, status, response_data) ==
    [Status |-> status,
     Reason |-> "See CloudWatch Log Stream: " \o log_stream_name,
     PhysicalResourceId |-> log_stream_name,
     StackId |-> e["StackId"],
     RequestId |-> e["RequestId"],
     LogicalResourceId |-> e["LogicalResourceId"],
     Data |-> response_data]

\* lines 51-59: the dict literal; event['StackId'], event['RequestId'] and
\* event['LogicalResourceId'] raise KeyError when missing
CfnResponseBody(e, status, response_data) ==
    [Status |-> status,
     Reason |-> "See CloudWatch Log Stream: " \o log_stream_name,
     PhysicalResourceId |-> Get(e, "PhysicalResourceId", log_stream_name),
     StackId |-> e["StackId"],
     RequestId |-> e["RequestId"],
     LogicalResourceId |-> e["LogicalResourceId"],
     Data |-> response_data]

\* the key whose KeyError lines 55-57 raise, "" when none is missing
CfnBodyKeyError(e) ==
    IF "StackId" \notin DOMAIN e THEN "'StackId'"
    ELSE IF "RequestId" \notin DOMAIN e THEN "'RequestId'"
    ELSE IF "LogicalResourceId" \notin DOMAIN e THEN "'LogicalResourceId'"
    ELSE ""

\* mutant of SendCfnResponse: the PUT is outside the try, a transport failure
\* raises out of the function
SendCfnResponse_TransportRaises(e, status, response_data, dumps, transport) ==
    IF CfnBodyKeyError(e) # ""
    THEN [outcome |-> "raise", exc |-> CfnBodyKeyError(e), put |-> <<>>]
    ELSE IF ~ dumps
    THEN [outcome |-> "False", exc |-> "", put |-> <<>>]
    ELSE IF "ResponseURL" \notin DOMAIN e
    THEN [outcome |-> "False", exc |-> "", put |-> <<>>]
    ELSE [outcome |-> IF transport THEN "True" ELSE "raise",
          exc |-> IF transport THEN "" ELSE "PUT failed",
          put |-> << Call("http.PUT",
                          [url |-> e["ResponseURL"],
                           body |-> CfnResponseBody(e, status, response_data)],
                          transport) >>]

\* One call of send_cfn_response.  dumps: json.dumps(response_body) returns;
\* transport: http.request returns.  The result tells whether the call
\* returned True, returned False or raised, and lists the PUT it issued.
SendCfnResponse(e, status, response_data, dumps, transport) ==
    IF CfnBodyKeyError(e) # ""
    THEN [outcome |-> "raise", exc |-> CfnBodyKeyError(e), put |-> <<>>]
    ELSE IF ~ dumps
    THEN [outcome |-> "False", exc |-> "", put |-> <<>>]
    ELSE IF "ResponseURL" \notin DOMAIN e
    THEN [outcome |-> "False", exc |-> "", put |-> <<>>]
    ELSE [outcome |-> IF transport THEN "True" ELSE "False",
          exc |-> "",
          put |-> << Call("http.PUT",
                          [url |-> e["ResponseURL"],
                           body |-> CfnResponseBody(e, status, response_data)],
                          transport) >>]

\* send_cfn_response called from apply_bucket_policy: on return go to
\* returned; on an exception go to raised with exc set, the exception having
\* left the functions in left
send_cfn_response(status, response_data, returned, raised, left) ==
    \E dumps \in BOOLEAN, transport \in BOOLEAN :
        LET r == SendCfnResponse(event, status, response_data, dumps, transport) IN
        /\ calls' = calls \o r.put
        /\ reports' = Append(reports, [status |-> status, data |-> response_data,
                                        outcome |-> r.outcome])
        /\ IF r.outcome = "raise"
           THEN /\ pc' = raised
                /\ exc' = r.exc
                /\ escaped' = escaped \cup left
           ELSE /\ pc' = returned
                /\ UNCHANGED <<exc, escaped>>

----------------------------------------------------------------------------
(* Initial state *)

EnvNames == {"OPENROUTER_API_KEY_PARAM", "TABLE_NAME", "TOPIC_ARN"}

Init ==
    /\ event \in Events
    /\ ENABLE_OPENROUTER \in BOOLEAN
    /\ ENABLE_DYNAMODB \in BOOLEAN
    /\ ENABLE_SNS \in BOOLEAN
    /\ environ \in SUBSET EnvNames
    /\ (IsCustomResource(event) =>
            /\ ENABLE_OPENROUTER /\ ENABLE_DYNAMODB /\ ENABLE_SNS
            /\ environ = EnvNames)
    /\ pc = "lambda_handler"
    /\ flow = "none"
    /\ bucket = ""
    /\ key = ""
    /\ text = NoText
    /\ summary = NoText
    /\ attempt = 0
    /\ exc = ""
    /\ steps = <<>>
    /\ calls = <<>>
    /\ reports = <<>>
    /\ escaped = {}
    /\ result = NoResult

flags == <<ENABLE_OPENROUTER, ENABLE_DYNAMODB, ENABLE_SNS, environ>>
locals == <<bucket, key, text, summary, attempt>>

----------------------------------------------------------------------------
(* lambda_handler: dispatch, lines 119-134 *)

\* mutant of Dispatch: bucket and key are read from the last record
Dispatch_LastRecord ==
    /\ pc = "lambda_handler"
    /\ IF IsCustomResource(event)
       THEN /\ flow' = "provisioning"
            /\ pc' = "apply_bucket_policy"
            /\ UNCHANGED <<bucket, key, exc>>
       ELSE IF InvalidS3Event(event)
       THEN /\ exc' = "Invalid S3 event structure"
            /\ pc' = "except"
            /\ UNCHANGED <<flow, bucket, key>>
       ELSE IF ~ HasBucketAndKey(event)
       THEN /\ flow' = "ingestion"
            /\ bucket' = (IF HasBucketName(event)
                          THEN event["Records"][Len(event["Records"])]["s3"]["bucket"]["name"]
                          ELSE bucket)
            /\ exc' = RecordKeyError(event)
            /\ pc' = "except"
            /\ UNCHANGED key
       ELSE /\ flow' = "ingestion"
            /\ bucket' = event["Records"][Len(event["Records"])]["s3"]["bucket"]["name"]
            /\ key' = event["Records"][Len(event["Records"])]["s3"]["object"]["key"]
            /\ pc' = "get_object"
            /\ UNCHANGED exc
    /\ UNCHANGED <<event, flags, text, summary, attempt, steps, calls,
                   reports, escaped, result>>

Dispatch ==
    /\ pc = "lambda_handler"
    /\ IF IsCustomResource(event)
       THEN /\ flow' = "provisioning"
            /\ pc' = "apply_bucket_policy"
            /\ UNCHANGED <<bucket, key, exc>>
       ELSE IF InvalidS3Event(event)
       THEN /\ exc' = "Invalid S3 event structure"
            /\ pc' = "except"
            /\ UNCHANGED <<flow, bucket, key>>
       ELSE IF ~ HasBucketAndKey(event)
       THEN /\ flow' = "ingestion"
            /\ bucket' = (IF HasBucketName(event)
                          THEN event["Records"][1]["s3"]["bucket"]["name"]
                          ELSE bucket)
            /\ exc' = RecordKeyError(event)
            /\ pc' = "except"
            /\ UNCHANGED key
       ELSE /\ flow' = "ingestion"
            /\ bucket' = event["Records"][1]["s3"]["bucket"]["name"]
            /\ key' = event["Records"][1]["s3"]["object"]["key"]
            /\ pc' = "get_object"
            /\ UNCHANGED exc
    /\ UNCHANGED <<event, flags, text, summary, attempt, steps, calls,
                   reports, escaped, result>>

\* mutant of GeneralError: the exception is logged and raised again
GeneralError_Reraise ==
    /\ pc = "except"
    /\ result' = [kind |-> "exception", statusCode |-> 0, body |-> exc]
    /\ escaped' = escaped \cup {"lambda_handler"}
    /\ pc' = "done"
    /\ UNCHANGED <<event, flags, flow, locals, exc, steps, calls, reports>>

\* lines 195-201: the handler of every exception raised inside lambda_handler
GeneralError ==
    /\ pc = "except"
    /\ result' = ReturnLambdaError
    /\ pc' = "done"
    /\ UNCHANGED <<event, flags, flow, locals, exc, steps, calls, reports,
                   escaped>>

----------------------------------------------------------------------------
(* apply_bucket_policy, lines 81-117 *)

RequestType == event["RequestType"]
BucketName == event["ResourceProperties"]["BucketName"]

\* lines 85-93: Create and Update read the properties, serialize the policy
\* and apply it
PutBucketPolicy ==
    /\ pc = "apply_bucket_policy"
    /\ RequestType \in {"Create", "Update"}
    /\ IF "PolicyDocument" \notin DOMAIN event["ResourceProperties"]
       THEN /\ exc' = "'PolicyDocument'"
            /\ pc' = "apply_except"
            /\ UNCHANGED calls
       ELSE \E dumps \in BOOLEAN, applied \in BOOLEAN :
            IF ~ dumps
            THEN /\ exc' = "Object is not JSON serializable"
                 /\ pc' = "apply_except"
                 /\ UNCHANGED calls
            ELSE /\ calls' = Append(calls,
                        Call("s3.put_bucket_policy",
                             [Bucket |-> BucketName,
                              Policy |-> event["ResourceProperties"]["PolicyDocument"]],
                             applied))
                 /\ IF applied
                    THEN pc' = "apply_success" /\ UNCHANGED exc
                    ELSE pc' = "apply_except" /\ exc' = "put_bucket_policy failed"
    /\ UNCHANGED <<event, flags, flow, locals, steps, reports, escaped,
                   result>>

\* mutant of DeleteBucketPolicy: no inner try, a failed removal reaches the
\* handler of line 112
DeleteBucketPolicy_NoInnerTry ==
    /\ pc = "apply_bucket_policy"
    /\ event["RequestType"] = "Delete"
    /\ \E removed \in BOOLEAN :
         /\ calls' = Append(calls,
                Call("s3.delete_bucket_policy",
                     [Bucket |-> event["ResourceProperties"]["BucketName"]], removed))
         /\ IF removed
            THEN pc' = "apply_success" /\ UNCHANGED exc
            ELSE pc' = "apply_except" /\ exc' = "delete_bucket_policy failed"
    /\ UNCHANGED <<event, flags, flow, locals, steps, reports, escaped,
                   result>>

\* lines 100-106: Delete removes the policy; a failure of the removal is
\* caught by the inner try
DeleteBucketPolicy ==
    /\ pc = "apply_bucket_policy"
    /\ RequestType = "Delete"
    /\ \E removed \in BOOLEAN :
         calls' = Append(calls, Call("s3.delete_bucket_policy",
                                     [Bucket |-> BucketName], removed))
    /\ pc' = "apply_success"
    /\ UNCHANGED <<event, flags, flow, locals, exc, steps, reports, escaped,
                   result>>

\* mutant of NoPolicyBranch: line 100 is a plain else, every other request
\* type removes the policy
NoPolicyBranch_Deletes ==
    /\ pc = "apply_bucket_policy"
    /\ event["RequestType"] \notin {"Create", "Update", "Delete"}
    /\ calls' = Append(calls,
            Call("s3.delete_bucket_policy",
                 [Bucket |-> event["ResourceProperties"]["BucketName"]], TRUE))
    /\ pc' = "apply_success"
    /\ UNCHANGED <<event, flags, flow, locals, exc, steps, reports, escaped,
                   result>>

\* a request type that is neither branch of lines 85 and 100
NoPolicyBranch ==
    /\ pc = "apply_bucket_policy"
    /\ RequestType \notin {"Create", "Update", "Delete"}
    /\ pc' = "apply_return"
    /\ UNCHANGED <<event, flags, flow, locals, exc, steps, calls, reports,
                   escaped, result>>

\* lines 96-98 and 108-110
SuccessMessage ==
    IF RequestType = "Delete"
    THEN "Bucket policy removal completed for " \o BucketName
    ELSE "Bucket policy applied successfully to " \o BucketName

ReportSuccess ==
    /\ pc = "apply_success"
    /\ send_cfn_response("SUCCESS", [Message |-> SuccessMessage],
                         "apply_return", "apply_except", {"send_cfn_response"})
    /\ UNCHANGED <<event, flags, flow, locals, steps, result>>

\* lines 112-117: the handler of every exception raised in the try block;
\* an exception raised here leaves apply_bucket_policy
ReportFailed ==
    /\ pc = "apply_except"
    /\ send_cfn_response("FAILED", [Error |-> exc], "apply_return", "except",
                         {"send_cfn_response", "apply_bucket_policy"})
    /\ UNCHANGED <<event, flags, flow, locals, steps, result>>

\* line 126: return apply_bucket_policy(event, context)
ApplyReturn ==
    /\ pc = "apply_return"
    /\ result' = ReturnNone
    /\ pc' = "done"
    /\ UNCHANGED <<event, flags, flow, locals, exc, steps, calls, reports,
                   escaped>>

----------------------------------------------------------------------------
(* Ingestion flow of lambda_handler, lines 132-193 *)

\* tenacity: stop_after_attempt(3), line 35
MaxAttempts == 3
\* text[:1000], line 42
PromptChars == 1000
\* summary[:1000], line 177
ExcerptChars == 1000
\* line 163
MaxItemBytes == 400000

\* the object bodies S3 can return, decoded: plain ASCII documents, and one
\* made of accented letters only
Documents ==
    { [doc |-> "hello world", len |-> 11],
      [doc |-> "report", len |-> 1500],
      [doc |-> "archive", len |-> 399880],
      [doc |-> "archive", len |-> 399881],
      [doc |-> "accents", len |-> 66654] }

\* the message contents the LLM can return
Contents ==
    { [doc |-> "llm summary", len |-> 120],
      [doc |-> "llm essay", len |-> 1200] }

\* the responses of chat.completions.create: no choices, a first choice with
\* empty content, one choice, two choices
Responses ==
    { [choices |-> <<>>],
      [choices |-> << [content |-> NoText] >>] }
    \cup { [choices |-> << [content |-> c] >>] : c \in Contents }
    \cup { [choices |-> << [content |-> c], [content |-> NoText] >>] : c \in Contents }

\* what the calls history holds as the response of a call that raised
NoResponse == [choices |-> <<>>]

\* len(json.dumps(s)) - 2 for a str s: json.dumps escapes every non-ASCII
\* letter as six characters \uXXXX; the placeholder holds five of them, the
\* document of accented letters holds nothing else
JsonChars(s) ==
    IF s = Placeholder THEN s.len + 5 * 5
    ELSE IF s.doc = "accents" THEN 6 * s.len
    ELSE s.len

\* mutant of Item: the stored text is cut like the prompt of line 42
Item_TruncatedText(k, b, t, s) ==
    [NomFichier |-> k, Bucket |-> b, Texte |-> Slice(t, PromptChars), Resume |-> s]

\* line 161
Item(k, b, t, s) == [NomFichier |-> k, Bucket |-> b, Texte |-> t, Resume |-> s]

\* line 162: len(json.dumps(item).encode('utf-8')); 69 bytes of braces,
\* quotes, separators and (escaped) key names surround the four values
ItemSize(item) ==
    69 + Len(item.NomFichier) + Len(item.Bucket)
       + JsonChars(item.Texte) + JsonChars(item.Resume)

\* mutant of SummaryOf: the last choice is read instead of the first
SummaryOf_LastChoice(resp, current) ==
    IF Len(resp.choices) > 0 /\ resp.choices[Len(resp.choices)].content.len > 0
    THEN resp.choices[Len(resp.choices)].content
    ELSE current

\* lines 148-149: the summary taken from a response, given the current one
SummaryOf(resp, current) ==
    IF Len(resp.choices) > 0 /\ resp.choices[1].content.len > 0
    THEN resp.choices[1].content
    ELSE current

\* lines 174-178
Notification(k, b, s) ==
    [Subject |-> "Nouveau fichier dans S3 : " \o k,
     Message |-> [key |-> k, bucket |-> b, excerpt |-> Slice(s, ExcerptChars)]]

\* mutant of GetObject: the except clause of line 139 logs and does not raise
GetObject_Swallow ==
    /\ pc = "get_object"
    /\ \E outcome \in {"ok", "NoSuchKey", "AccessDenied", "UnicodeDecodeError"} :
         /\ calls' = Append(calls, Call("s3.get_object",
                                        [Bucket |-> bucket, Key |-> key],
                                        outcome \in {"ok", "UnicodeDecodeError"}))
         /\ steps' = Append(steps, Step("fetch", IF outcome = "ok" THEN "" ELSE outcome))
         /\ IF outcome = "ok"
            THEN (\E t \in Documents : text' = t) /\ UNCHANGED exc
            ELSE exc' = outcome /\ UNCHANGED text
         /\ pc' = "summarize"
    /\ UNCHANGED <<event, flags, flow, bucket, key, summary, attempt, reports,
                   escaped, result>>

\* lines 135-141: read the object and decode it; any failure is re-raised
GetObject ==
    /\ pc = "get_object"
    /\ \E outcome \in {"ok", "NoSuchKey", "AccessDenied", "UnicodeDecodeError"} :
         /\ calls' = Append(calls, Call("s3.get_object",
                                        [Bucket |-> bucket, Key |-> key],
                                        outcome \in {"ok", "UnicodeDecodeError"}))
         /\ IF outcome = "ok"
            THEN /\ \E t \in Documents : text' = t
                 /\ steps' = Append(steps, Step("fetch", ""))
                 /\ pc' = "summarize"
                 /\ UNCHANGED exc
            ELSE /\ exc' = outcome
                 /\ steps' = Append(steps, Step("fetch", outcome))
                 /\ pc' = "except"
                 /\ UNCHANGED text
    /\ UNCHANGED <<event, flags, flow, bucket, key, summary, attempt, reports,
                   escaped, result>>

\* mutant of BeginSummary: the notification is published before the summary
\* is requested
BeginSummary_NotifyFirst ==
    /\ pc = "summarize"
    /\ summary' = Placeholder
    /\ calls' = Append(calls, Call("sns.publish",
                                   Notification(key, bucket, Placeholder), TRUE))
    /\ IF ENABLE_OPENROUTER
       THEN /\ attempt' = 1
            /\ pc' = "get_api_key"
       ELSE /\ pc' = "store"
            /\ UNCHANGED attempt
    /\ UNCHANGED <<event, flags, flow, bucket, key, text, exc, steps, reports,
                   escaped, result>>

\* lines 144-147
BeginSummary ==
    /\ pc = "summarize"
    /\ summary' = Placeholder
    /\ IF ENABLE_OPENROUTER
       THEN /\ attempt' = 1
            /\ pc' = "get_api_key"
       ELSE /\ pc' = "store"
            /\ UNCHANGED attempt
    /\ UNCHANGED <<event, flags, flow, bucket, key, text, exc, steps, calls,
                   reports, escaped, result>>

\* line 35: an attempt of call_openrouter raised; tenacity waits and calls
\* again, or gives up after MaxAttempts attempts and raises into line 153
\* mutant of AttemptRaised: the stop condition of line 35 is tested after one
\* attempt too many
AttemptRaised_OffByOne(e) ==
    /\ exc' = (IF attempt <= MaxAttempts THEN e ELSE "RetryError")
    /\ IF attempt <= MaxAttempts
       THEN attempt' = attempt + 1 /\ pc' = "get_api_key"
       ELSE pc' = "summarize_except" /\ UNCHANGED attempt

AttemptRaised(e) ==
    /\ exc' = (IF attempt < MaxAttempts THEN e ELSE "RetryError")
    /\ IF attempt < MaxAttempts
       THEN attempt' = attempt + 1 /\ pc' = "get_api_key"
       ELSE pc' = "summarize_except" /\ UNCHANGED attempt

\* mutant of GetApiKey: a credential error is not retried, it goes straight to
\* the handler of line 153
GetApiKey_NoRetry ==
    /\ pc = "get_api_key"
    /\ IF "OPENROUTER_API_KEY_PARAM" \notin environ
       THEN /\ exc' = "'OPENROUTER_API_KEY_PARAM'"
            /\ pc' = "summarize_except"
            /\ UNCHANGED <<calls, attempt>>
       ELSE \E found \in BOOLEAN :
            /\ calls' = Append(calls, Call("ssm.get_parameter",
                                           [WithDecryption |-> TRUE], found))
            /\ IF found
               THEN pc' = "create" /\ UNCHANGED <<attempt, exc>>
               ELSE /\ exc' = "get_parameter failed"
                    /\ pc' = "summarize_except"
                    /\ UNCHANGED attempt
    /\ UNCHANGED <<event, flags, flow, bucket, key, text, summary, steps,
                   reports, escaped, result>>

\* lines 21-33 and 37: get_openrouter_client reads the API key
GetApiKey ==
    /\ pc = "get_api_key"
    /\ IF "OPENROUTER_API_KEY_PARAM" \notin environ
       THEN /\ AttemptRaised("'OPENROUTER_API_KEY_PARAM'")
            /\ UNCHANGED calls
       ELSE \E found \in BOOLEAN :
            /\ calls' = Append(calls, Call("ssm.get_parameter",
                                           [WithDecryption |-> TRUE], found))
            /\ IF found
               THEN pc' = "create" /\ UNCHANGED <<attempt, exc>>
               ELSE AttemptRaised("get_parameter failed")
    /\ UNCHANGED <<event, flags, flow, bucket, key, text, summary, steps,
                   reports, escaped, result>>

\* lines 38-44, then lines 148-152 on the response returned
ChatCompletion ==
    /\ pc = "create"
    /\ \E answered \in BOOLEAN :
       \E resp \in (IF answered THEN Responses ELSE {NoResponse}) :
         /\ calls' = Append(calls, Call("openrouter.chat.completions.create",
                                        [content |-> Slice(text, PromptChars),
                                         response |-> resp],
                                        answered))
         /\ IF answered
            THEN /\ summary' = SummaryOf(resp, summary)
                 /\ steps' = Append(steps, Step("summarize", ""))
                 /\ pc' = "store"
                 /\ UNCHANGED <<attempt, exc>>
            ELSE /\ AttemptRaised("completion failed")
                 /\ UNCHANGED <<summary, steps>>
    /\ UNCHANGED <<event, flags, flow, bucket, key, text, reports, escaped,
                   result>>

\* mutant of SummaryError: the exception is not isolated and reaches line 195
SummaryError_Abort ==
    /\ pc = "summarize_except"
    /\ steps' = Append(steps, Step("summarize", exc))
    /\ pc' = "except"
    /\ UNCHANGED <<event, flags, flow, locals, exc, calls, reports, escaped,
                   result>>

\* lines 153-155
SummaryError ==
    /\ pc = "summarize_except"
    /\ steps' = Append(steps, Step("summarize", exc))
    /\ pc' = "store"
    /\ UNCHANGED <<event, flags, flow, locals, exc, calls, reports, escaped,
                   result>>

\* mutant of StoreError: the size test of line 163 is >= instead of >
StoreError_RejectsAtLimit(item, written) ==
    IF "TABLE_NAME" \notin environ THEN "'TABLE_NAME'"
    ELSE IF ItemSize(item) >= MaxItemBytes
    THEN "Item size exceeds DynamoDB 400 KB limit"
    ELSE IF ~ written THEN "put_item failed"
    ELSE ""

\* lines 160-165: str(e) of the exception the try block of the store step
\* raises, "" when put_item returns; written: put_item returns
StoreError(item, written) ==
    IF "TABLE_NAME" \notin environ THEN "'TABLE_NAME'"
    ELSE IF ItemSize(item) > MaxItemBytes
    THEN "Item size exceeds DynamoDB 400 KB limit"
    ELSE IF ~ written THEN "put_item failed"
    ELSE ""

\* mutant of Store: the test of ENABLE_DYNAMODB on line 158 is missing
Store_IgnoresFlag ==
    /\ pc = "store"
    /\ pc' = "notify"
    /\ \E written \in BOOLEAN :
            LET item == Item(key, bucket, text, summary)
                error == StoreError(item, written)
            IN  /\ calls' = IF error \in {"", "put_item failed"}
                            THEN Append(calls, Call("dynamodb.put_item", item, written))
                            ELSE calls
                /\ steps' = Append(steps, Step("store", error))
                /\ exc' = IF error = "" THEN exc ELSE error
    /\ UNCHANGED <<event, flags, flow, locals, reports, escaped, result>>

\* lines 158-169
Store ==
    /\ pc = "store"
    /\ pc' = "notify"
    /\ IF ~ ENABLE_DYNAMODB
       THEN UNCHANGED <<steps, calls, exc>>
       ELSE \E written \in BOOLEAN :
            LET item == Item(key, bucket, text, summary)
                error == StoreError(item, written)
            IN  /\ calls' = IF error \in {"", "put_item failed"}
                            THEN Append(calls, Call("dynamodb.put_item", item, written))
                            ELSE calls
                /\ steps' = Append(steps, Step("store", error))
                /\ exc' = IF error = "" THEN exc ELSE error
    /\ UNCHANGED <<event, flags, flow, locals, reports, escaped, result>>

\* lines 174-183: str(e) of the exception the try block of the notify step
\* raises, "" when publish returns; published: publish returns
NotifyError(published) ==
    IF "TOPIC_ARN" \notin environ THEN "'TOPIC_ARN'"
    ELSE IF ~ published THEN "publish failed"
    ELSE ""

\* mutant of Notify: no try around the publish, its exception reaches line 195
Notify_NotIsolated ==
    /\ pc = "notify"
    /\ IF ~ ENABLE_SNS
       THEN pc' = "return" /\ UNCHANGED <<steps, calls, exc>>
       ELSE \E published \in BOOLEAN :
            LET error == NotifyError(published)
            IN  /\ calls' = IF "TOPIC_ARN" \in environ
                            THEN Append(calls,
                                   Call("sns.publish",
                                        Notification(key, bucket, summary),
                                        published))
                            ELSE calls
                /\ steps' = Append(steps, Step("notify", error))
                /\ exc' = IF error = "" THEN exc ELSE error
                /\ pc' = IF error = "" THEN "return" ELSE "except"
    /\ UNCHANGED <<event, flags, flow, locals, reports, escaped, result>>

\* lines 172-187
Notify ==
    /\ pc = "notify"
    /\ pc' = "return"
    /\ IF ~ ENABLE_SNS
       THEN UNCHANGED <<steps, calls, exc>>
       ELSE \E published \in BOOLEAN :
            LET error == NotifyError(published)
            IN  /\ calls' = IF "TOPIC_ARN" \in environ
                            THEN Append(calls,
                                   Call("sns.publish",
                                        Notification(key, bucket, summary),
                                        published))
                            ELSE calls
                /\ steps' = Append(steps, Step("notify", error))
                /\ exc' = IF error = "" THEN exc ELSE error
    /\ UNCHANGED <<event, flags, flow, locals, reports, escaped, result>>

\* lines 189-193
ReturnOk ==
    /\ pc = "return"
    /\ result' = ReturnSuccess
    /\ pc' = "done"
    /\ UNCHANGED <<event, flags, flow, locals, exc, steps, calls, reports,
                   escaped>>

----------------------------------------------------------------------------
(* Specification *)

Next ==
    \/ Dispatch
    \/ GeneralError
    \/ PutBucketPolicy
    \/ DeleteBucketPolicy
    \/ NoPolicyBranch
    \/ ReportSuccess
    \/ ReportFailed
    \/ ApplyReturn
    \/ GetObject
    \/ BeginSummary
    \/ GetApiKey
    \/ ChatCompletion
    \/ SummaryError
    \/ Store
    \/ Notify
    \/ ReturnOk

Spec == Init /\ [][Next]_vars

\* The handler is one thread of straight-line code: whenever the external call
\* it waits for returns or raises, it takes its next step.
FairSpec == Spec /\ WF_vars(Next)

----------------------------------------------------------------------------
(* Vocabulary of the properties *)

Done == pc = "done"

Puts == CallsTo("http.PUT")

IngestionServices ==
    {"s3.get_object", "ssm.get_parameter", "openrouter.chat.completions.create",
     "dynamodb.put_item", "sns.publish"}

PolicyServices == {"s3.put_bucket_policy", "s3.delete_bucket_policy"}

CalledAnyOf(services) == \E i \in 1..Len(calls) : calls[i].svc \in services

\* an event with a non-empty RequestType and a ResourceProperties map that
\* contains BucketName
ProvisioningShape(e) ==
    /\ "RequestType" \in DOMAIN e
    /\ e["RequestType"] # ""
    /\ "ResourceProperties" \in DOMAIN e
    /\ "BucketName" \in DOMAIN e["ResourceProperties"]

\* any other event whose Records list is non-empty and whose first record has
\* a (non-empty) s3 sub-object
IngestionShape(e) ==
    /\ ~ ProvisioningShape(e)
    /\ "Records" \in DOMAIN e
    /\ Len(e["Records"]) > 0
    /\ "s3" \in DOMAIN e["Records"][1]
    /\ DOMAIN e["Records"][1]["s3"] # {}

\* an ingestion event whose first record names a bucket and an object key
ValidIngestionEvent(e) ==
    /\ IngestionShape(e)
    /\ "bucket" \in DOMAIN e["Records"][1]["s3"]
    /\ "name" \in DOMAIN e["Records"][1]["s3"]["bucket"]
    /\ "object" \in DOMAIN e["Records"][1]["s3"]
    /\ "key" \in DOMAIN e["Records"][1]["s3"]["object"]

\* the callback fields send_cfn_response reads by subscript are all present
CompleteCallback(e) ==
    {"StackId", "RequestId", "LogicalResourceId", "ResponseURL"} \subseteq DOMAIN e

StepEnded(name) == \E i \in 1..Len(steps) : steps[i].name = name
StepFailed(name) ==
    \E i \in 1..Len(steps) : steps[i].name = name /\ steps[i].error # ""

FetchSucceeded == Len(steps) > 0 /\ steps[1] = Step("fetch", "")
FetchFailed == Len(steps) > 0 /\ steps[1].name = "fetch" /\ steps[1].error # ""

----------------------------------------------------------------------------
(* Properties *)

\* C1: every invocation routed to the provisioning flow, whatever its
\* RequestType and whether the policy operation succeeds or throws, has
\* attempted exactly one callback PUT when it ends, with Status SUCCESS or
\* FAILED.
C1_ExactlyOneCallbackPut ==
    (Done /\ ProvisioningShape(event)) =>
        /\ Len(Puts) = 1
        /\ Puts[1].arg.body.Status \in {"SUCCESS", "FAILED"}

\* C2: in a provisioning invocation with RequestType Delete every callback PUT
\* carries Status SUCCESS; after the removal call, failed or not, the reporter
\* is invoked with SUCCESS first, and when the event has its callback fields
\* that is the only report of the invocation.
C2_DeleteReportsSuccess ==
    (ProvisioningShape(event) /\ event["RequestType"] = "Delete") =>
        /\ \A i \in 1..Len(Puts) : Puts[i].arg.body.Status = "SUCCESS"
        /\ Len(reports) > 0 => reports[1].status = "SUCCESS"
        /\ Done => Len(reports) > 0
        /\ (Done /\ CompleteCallback(event)) =>
               /\ Len(reports) = 1
               /\ Len(Puts) <= 1
               /\ reports[1].outcome = "True" => Len(Puts) = 1

C2_Witness ==
    /\ Done
    /\ ProvisioningShape(event) /\ event["RequestType"] = "Delete"
    /\ \E i \in 1..Len(calls) :
          calls[i].svc = "s3.delete_bucket_policy" /\ ~ calls[i].ok
    /\ Len(Puts) = 1
    /\ Puts[1].arg.body.Status = "SUCCESS"

\* C3: in a provisioning invocation with RequestType Create or Update, SUCCESS
\* is reported when reading the properties, serializing the policy and applying
\* it all succeed, FAILED with the error text in the data payload is reported
\* when one of them raises, and no exception leaves apply_bucket_policy.
C3_CreateUpdateReported ==
    (Done /\ ProvisioningShape(event)
          /\ event["RequestType"] \in {"Create", "Update"}) =>
        LET applied == \E i \in 1..Len(calls) :
                          calls[i].svc = "s3.put_bucket_policy" /\ calls[i].ok
        IN  /\ Len(reports) > 0
            /\ applied => reports[1].status = "SUCCESS"
            /\ ~ applied =>
                   /\ reports[1].status = "FAILED"
                   /\ DOMAIN reports[1].data = {"Error"}
                   /\ reports[1].data["Error"] # ""
            /\ "apply_bucket_policy" \notin escaped

\* C4: send_cfn_response never propagates an exception: every call returns
\* True or False, True exactly when its PUT completed, with at most one PUT
\* per call.
C4_ReporterNeverRaises ==
    /\ "send_cfn_response" \notin escaped
    /\ \A i \in 1..Len(reports) : reports[i].outcome \in {"True", "False"}
    /\ Len(Puts) <= Len(reports)
    /\ \A i \in 1..Len(Puts) :
          Puts[i].ok <=> (\E j \in 1..Len(reports) :
                              /\ reports[j].outcome = "True"
                              /\ reports[j].status = Puts[i].arg.body.Status)

\* C5: every callback payload that is PUT carries the event's StackId,
\* RequestId and LogicalResourceId unchanged, and as PhysicalResourceId the
\* event's PhysicalResourceId when present and the log-stream name otherwise.
C5_PayloadEchoesEvent ==
    \A i \in 1..Len(Puts) :
        LET body == Puts[i].arg.body IN
        /\ body.StackId = event["StackId"]
        /\ body.RequestId = event["RequestId"]
        /\ body.LogicalResourceId = event["LogicalResourceId"]
        /\ body.PhysicalResourceId =
              (IF "PhysicalResourceId" \in DOMAIN event
               THEN event["PhysicalResourceId"]
               ELSE log_stream_name)

C5_Witness ==
    /\ Done
    /\ Len(Puts) = 1
    /\ "PhysicalResourceId" \in DOMAIN event
    /\ Puts[1].arg.body.PhysicalResourceId = "phys1"

\* C6: exactly one flow runs.  An event of the provisioning shape enters the
\* provisioning flow and never fetches, calls the LLM or the parameter store,
\* writes or publishes, also when it carries Records; an event of the ingestion
\* shape enters the ingestion flow and never touches the bucket policy nor
\* invokes the callback reporter.
C6_ExactlyOneFlow ==
    /\ ProvisioningShape(event) =>
          /\ flow = (IF pc = "lambda_handler" THEN "none" ELSE "provisioning")
          /\ ~ CalledAnyOf(IngestionServices)
          /\ steps = <<>>
    /\ IngestionShape(event) =>
          /\ flow = (IF pc = "lambda_handler" THEN "none" ELSE "ingestion")
          /\ ~ CalledAnyOf(PolicyServices \cup {"http.PUT"})
          /\ reports = <<>>

C6_Witness ==
    /\ Done
    /\ ProvisioningShape(event)
    /\ "Records" \in DOMAIN event
    /\ flow = "provisioning"
    /\ Len(Puts) = 1

\* C7: an event of neither shape makes lambda_handler return statusCode 500
\* with body "Lambda error" (JSON-encoded), raise nothing and issue no
\* external call.
C7_InvalidEventRejected ==
    (~ ProvisioningShape(event) /\ ~ IngestionShape(event)) =>
        /\ calls = <<>>
        /\ reports = <<>>
        /\ steps = <<>>
        /\ escaped = {}
        /\ pc \in {"lambda_handler", "except", "done"}
        /\ Done => result = [kind |-> "dict", statusCode |-> 500,
                             body |-> "\"Lambda error\""]

C7_Witness ==
    /\ Done
    /\ ~ ProvisioningShape(event)
    /\ "Records" \in DOMAIN event
    /\ Len(event["Records"]) > 0
    /\ "s3" \notin DOMAIN event["Records"][1]
    /\ result.statusCode = 500

\* C8: for a valid ingestion event lambda_handler returns statusCode 200 with
\* body "Success" (JSON-encoded) exactly when the fetch step succeeded and
\* statusCode 500 with body "Lambda error" exactly when it failed, whatever
\* the later steps and the flags did; no exception leaves lambda_handler.
C8_ResultFollowsFetch ==
    (Done /\ ValidIngestionEvent(event)) =>
        /\ result.kind = "dict"
        /\ "lambda_handler" \notin escaped
        /\ (result.statusCode = 200 /\ result.body = "\"Success\"")
              <=> FetchSucceeded
        /\ (result.statusCode = 500 /\ result.body = "\"Lambda error\"")
              <=> FetchFailed

C8_Witness ==
    /\ Done
    /\ ValidIngestionEvent(event)
    /\ FetchSucceeded
    /\ StepFailed("summarize") /\ StepFailed("store") /\ StepFailed("notify")
    /\ result.statusCode = 200

\* C9: when the fetch step fails the flow is aborted: no LLM call, no
\* credential retrieval, no key-value write and no publish happens in that
\* invocation, for every flag setting.
C9_FetchFailureAborts ==
    FetchFailed =>
        /\ ~ CalledAnyOf(IngestionServices \ {"s3.get_object"})
        /\ Len(steps) = 1
        /\ pc \in {"except", "done"}

C9_Witness ==
    /\ Done
    /\ FetchFailed
    /\ ENABLE_OPENROUTER /\ ENABLE_DYNAMODB /\ ENABLE_SNS
    /\ environ = EnvNames

\* C10: after a successful fetch a failed step never aborts the later ones.
\* If summarization failed and persistence is enabled, the store step ran and,
\* the table being configured and the item within the size limit, put_item was
\* called with the placeholder summary; if the store step failed and
\* notification is enabled, the notify step ran and, the topic being
\* configured, publish was called; if notification failed the success result
\* is still returned.
C10_LaterStepsStillRun ==
    (Done /\ FetchSucceeded) =>
        /\ (StepFailed("summarize") /\ ENABLE_DYNAMODB) =>
              /\ StepEnded("store")
              /\ ("TABLE_NAME" \in environ
                  /\ ItemSize(Item(key, bucket, text, Placeholder)) <= MaxItemBytes) =>
                     \E i \in 1..Len(calls) :
                        /\ calls[i].svc = "dynamodb.put_item"
                        /\ calls[i].arg.Resume = Placeholder
        /\ (StepFailed("store") /\ ENABLE_SNS) =>
              /\ StepEnded("notify")
              /\ "TOPIC_ARN" \in environ =>
                     \E i \in 1..Len(calls) : calls[i].svc = "sns.publish"
        /\ StepFailed("notify") => result = ReturnSuccess

C10_Witness ==
    /\ Done
    /\ FetchSucceeded
    /\ StepFailed("summarize")
    /\ \E i \in 1..Len(calls) :
          /\ calls[i].svc = "dynamodb.put_item"
          /\ calls[i].arg.Resume = Placeholder
          /\ ~ calls[i].ok
    /\ \E i \in 1..Len(calls) : calls[i].svc = "sns.publish" /\ ~ calls[i].ok
    /\ result = ReturnSuccess

\* the position of an external call, and of a step, in the ingestion flow
CallRank(svc) ==
    CASE svc = "s3.get_object" -> 1
      [] svc \in {"ssm.get_parameter", "openrouter.chat.completions.create"} -> 2
      [] svc = "dynamodb.put_item" -> 3
      [] svc = "sns.publish" -> 4
      [] OTHER -> 0

StepRank(name) ==
    CASE name = "fetch" -> 1
      [] name = "summarize" -> 2
      [] name = "store" -> 3
      [] name = "notify" -> 4
      [] OTHER -> 0

\* C11: within one ingestion invocation the external calls happen in the
\* order fetch, LLM attempts (each with its credential retrieval), write,
\* publish: a call never follows a call of a later step, fetch, write and
\* publish are never followed by a call of their own step, every call after
\* the fetch follows a fetch that succeeded, and the steps end in that order.
C11_StepsInOrder ==
    /\ \A i, j \in 1..Len(calls) :
          (i < j /\ CallRank(calls[i].svc) > 0 /\ CallRank(calls[j].svc) > 0) =>
              /\ CallRank(calls[i].svc) <= CallRank(calls[j].svc)
              /\ CallRank(calls[i].svc) # 2 =>
                     CallRank(calls[i].svc) < CallRank(calls[j].svc)
    /\ \A j \in 1..Len(calls) :
          CallRank(calls[j].svc) > 1 =>
              calls[1].svc = "s3.get_object" /\ FetchSucceeded
    /\ \A i, j \in 1..Len(steps) :
          i < j => StepRank(steps[i].name) < StepRank(steps[j].name)

C11_Witness ==
    /\ Done
    /\ Len(calls) = 7
    /\ calls[1].svc = "s3.get_object"
    /\ calls[2].svc = "ssm.get_parameter" /\ ~ calls[2].ok
    /\ calls[3].svc = "ssm.get_parameter"
    /\ calls[4].svc = "openrouter.chat.completions.create" /\ ~ calls[4].ok
    /\ calls[5].svc = "ssm.get_parameter"
    /\ calls[6].svc = "dynamodb.put_item"
    /\ calls[7].svc = "sns.publish"

LlmCalls == CallsTo("openrouter.chat.completions.create")

\* the summarization step is over
AfterSummarize == pc \in {"store", "notify", "return", "done"} /\ FetchSucceeded

\* a call of the LLM returned a response whose first choice has content
LlmAnswered ==
    /\ ENABLE_OPENROUTER
    /\ Len(LlmCalls) > 0
    /\ LlmCalls[Len(LlmCalls)].ok
    /\ Len(LlmCalls[Len(LlmCalls)].arg.response.choices) > 0
    /\ LlmCalls[Len(LlmCalls)].arg.response.choices[1].content.len > 0

\* C12: once the fetch succeeded and the summarization step is over, the
\* summary is the content of the first choice of the successful LLM response
\* when summarization is enabled, a call succeeded and that content is not
\* empty, and the placeholder otherwise; the record written and the
\* notification published are built from that one summary.
C12_SummaryIsLlmOrPlaceholder ==
    AfterSummarize =>
        /\ summary = (IF LlmAnswered
                      THEN LlmCalls[Len(LlmCalls)].arg.response.choices[1].content
                      ELSE [doc |-> "Résumé non généré.", len |-> 18])
        /\ \A i \in 1..Len(calls) :
              /\ calls[i].svc = "dynamodb.put_item" => calls[i].arg.Resume = summary
              /\ calls[i].svc = "sns.publish" =>
                    /\ calls[i].arg.Message.excerpt.doc = summary.doc
                    /\ calls[i].arg.Message.excerpt.len <= summary.len

C12_Witness ==
    /\ Done
    /\ LlmAnswered
    /\ Len(LlmCalls[Len(LlmCalls)].arg.response.choices) = 2
    /\ summary.doc = "llm essay"
    /\ \E i \in 1..Len(calls) : calls[i].svc = "dynamodb.put_item"
    /\ \E i \in 1..Len(calls) : calls[i].svc = "sns.publish"

\* C13: a disabled flag means no call of its step's service in the
\* invocation: no put_item without ENABLE_DYNAMODB, no publish without
\* ENABLE_SNS, no LLM call and no credential retrieval without
\* ENABLE_OPENROUTER; and after a successful fetch each step runs exactly when
\* its own flag is enabled, whatever the other flags are.
C13_DisabledStepMakesNoCall ==
    /\ ~ ENABLE_DYNAMODB => ~ CalledAnyOf({"dynamodb.put_item"})
    /\ ~ ENABLE_SNS => ~ CalledAnyOf({"sns.publish"})
    /\ ~ ENABLE_OPENROUTER =>
          ~ CalledAnyOf({"ssm.get_parameter", "openrouter.chat.completions.create"})
    /\ (Done /\ FetchSucceeded) =>
          /\ StepEnded("summarize") <=> ENABLE_OPENROUTER
          /\ StepEnded("store") <=> ENABLE_DYNAMODB
          /\ StepEnded("notify") <=> ENABLE_SNS

C13_Witness ==
    /\ Done
    /\ FetchSucceeded
    /\ ENABLE_OPENROUTER /\ ~ ENABLE_DYNAMODB /\ ENABLE_SNS
    /\ "TABLE_NAME" \in environ
    /\ CalledAnyOf({"openrouter.chat.completions.create"})
    /\ CalledAnyOf({"sns.publish"})
    /\ ~ CalledAnyOf({"dynamodb.put_item"})

PutItems == CallsTo("dynamodb.put_item")

\* the store step is over in an invocation that could write: fetch succeeded,
\* persistence enabled, table configured
AfterStore ==
    /\ pc \in {"notify", "return", "done"}
    /\ FetchSucceeded
    /\ ENABLE_DYNAMODB
    /\ "TABLE_NAME" \in environ

SizeRejected ==
    \E i \in 1..Len(steps) :
        steps[i] = Step("store", "Item size exceeds DynamoDB 400 KB limit")

\* C14: a record whose serialized size (the length of its JSON text) is over
\* 400,000 bytes is never written and never truncated to fit; a record of
\* 400,000 bytes or less is submitted to put_item whole; after a size
\* rejection the notify step still runs when enabled and the success result
\* is returned.  The ASCII document of 399,880 characters stored under key
\* k1.txt of bucket b1 with the placeholder summary is exactly 400,000 bytes.
C14_OversizedRecordNotWritten ==
    /\ \A i \in 1..Len(PutItems) :
          /\ ItemSize(PutItems[i].arg) <= 400000
          /\ PutItems[i].arg.Texte = text
    /\ AfterStore =>
          /\ ItemSize(Item(key, bucket, text, summary)) <= 400000 =>
                /\ Len(PutItems) = 1
                /\ PutItems[1].arg = Item(key, bucket, text, summary)
          /\ ItemSize(Item(key, bucket, text, summary)) > 400000 =>
                /\ Len(PutItems) = 0
                /\ SizeRejected
          /\ (summary = Placeholder /\ key = "k1.txt" /\ bucket = "b1"
                  /\ text.doc = "archive") =>
                /\ text.len = 399880 => Len(PutItems) = 1
                /\ text.len = 399881 => Len(PutItems) = 0
          /\ (summary = Placeholder /\ text.doc = "accents") => Len(PutItems) = 0
    /\ (Done /\ SizeRejected) =>
          /\ result = ReturnSuccess
          /\ ENABLE_SNS =>
                /\ StepEnded("notify")
                /\ "TOPIC_ARN" \in environ => CalledAnyOf({"sns.publish"})

C14_Witness ==
    /\ Done
    /\ SizeRejected
    /\ ItemSize(Item(key, bucket, text, summary)) = 400001
    /\ Len(PutItems) = 0
    /\ \E i \in 1..Len(calls) : calls[i].svc = "sns.publish" /\ calls[i].ok
    /\ result.statusCode = 200

\* the calls call_openrouter made, in order
AttemptCalls ==
    SelectSeq(calls, LAMBDA c : c.svc \in {"ssm.get_parameter",
                                           "openrouter.chat.completions.create"})

FailedAttemptCalls == SelectSeq(AttemptCalls, LAMBDA c : ~ c.ok)

\* C15: call_openrouter makes at most 3 attempts.  Every attempt retrieves the
\* credential again before it calls the LLM; a failed retrieval and a failed
\* LLM call are both followed by a new attempt, and nothing but a failure is:
\* a successful LLM call is the last call.  The summarization step fails only
\* after 3 failed attempts, and the flow then keeps the placeholder and goes
\* on to return the success result.
C15_AtMostThreeAttempts ==
    LET S == AttemptCalls IN
    /\ attempt <= 3
    /\ Len(CallsTo("ssm.get_parameter")) <= 3
    /\ Len(LlmCalls) <= 3
    /\ \A i \in 1..Len(S) :
          /\ S[i].svc = "openrouter.chat.completions.create" =>
                i > 1 /\ S[i-1].svc = "ssm.get_parameter" /\ S[i-1].ok
          /\ i < Len(S) =>
                /\ S[i].svc = "ssm.get_parameter" =>
                      (S[i].ok <=> S[i+1].svc = "openrouter.chat.completions.create")
                /\ S[i].svc = "openrouter.chat.completions.create" =>
                      ~ S[i].ok /\ S[i+1].svc = "ssm.get_parameter"
    /\ (pc \in {"get_api_key", "create"} /\ "OPENROUTER_API_KEY_PARAM" \in environ) =>
          attempt = Len(FailedAttemptCalls) + 1
    /\ StepFailed("summarize") =>
          /\ attempt = 3
          /\ "OPENROUTER_API_KEY_PARAM" \in environ => Len(FailedAttemptCalls) = 3
          /\ \A i \in 1..Len(S) : S[i].svc = "ssm.get_parameter" \/ ~ S[i].ok
          /\ summary = Placeholder
          /\ pc \in {"store", "notify", "return", "done"}
          /\ Done => result = ReturnSuccess
    /\ (\E i \in 1..Len(steps) : steps[i] = Step("summarize", "")) =>
          /\ Len(S) > 0
          /\ S[Len(S)].svc = "openrouter.chat.completions.create"
          /\ S[Len(S)].ok

C15_Witness ==
    /\ Done
    /\ attempt = 3
    /\ Len(AttemptCalls) = 5
    /\ AttemptCalls[1].svc = "ssm.get_parameter" /\ AttemptCalls[1].ok
    /\ AttemptCalls[2].svc = "openrouter.chat.completions.create"
    /\ AttemptCalls[3].svc = "ssm.get_parameter" /\ ~ AttemptCalls[3].ok
    /\ AttemptCalls[5].ok
    /\ summary.doc = "llm summary"

\* C16: only the first record of an ingestion event is processed: one
\* invocation makes at most one get_object, one put_item and one publish, a
\* failed write or publish is not retried, and all three name the bucket and
\* the key of the first record.
C16_OnlyFirstRecord ==
    /\ Len(CallsTo("s3.get_object")) <= 1
    /\ Len(CallsTo("dynamodb.put_item")) <= 1
    /\ Len(CallsTo("sns.publish")) <= 1
    /\ \A i \in 1..Len(calls) :
          LET b == event["Records"][1]["s3"]["bucket"]["name"]
              k == event["Records"][1]["s3"]["object"]["key"]
          IN  /\ calls[i].svc = "s3.get_object" =>
                    calls[i].arg = [Bucket |-> b, Key |-> k]
              /\ calls[i].svc = "dynamodb.put_item" =>
                    calls[i].arg.NomFichier = k /\ calls[i].arg.Bucket = b
              /\ calls[i].svc = "sns.publish" =>
                    /\ calls[i].arg.Subject = "Nouveau fichier dans S3 : " \o k
                    /\ calls[i].arg.Message.key = k
                    /\ calls[i].arg.Message.bucket = b

C16_Witness ==
    /\ Done
    /\ "Records" \in DOMAIN event
    /\ Len(event["Records"]) = 2
    /\ Len(CallsTo("s3.get_object")) = 1
    /\ Len(CallsTo("dynamodb.put_item")) = 1
    /\ ~ CallsTo("dynamodb.put_item")[1].ok
    /\ Len(CallsTo("sns.publish")) = 1
    /\ ~ CallsTo("sns.publish")[1].ok
    /\ CallsTo("sns.publish")[1].arg.Message.key = "k1.txt"

\* the first n characters of a text, written out
FirstChars(s, n) == [doc |-> s.doc, len |-> IF s.len <= n THEN s.len ELSE n]

\* C17: the two truncations are independent and the only ones: every LLM call
\* is given the first 1000 characters of the fetched text, every notification
\* embeds the first 1000 characters of the summary, and the record written
\* holds the whole text and the whole summary under the object key.  With
\* summarization disabled and the body "hello world" the record written has
\* Texte = "hello world" and the placeholder as summary, and the result is
\* the success result.
C17_TruncationsIndependent ==
    /\ \A i \in 1..Len(calls) :
          /\ calls[i].svc = "openrouter.chat.completions.create" =>
                calls[i].arg.content = FirstChars(text, 1000)
          /\ calls[i].svc = "sns.publish" =>
                calls[i].arg.Message.excerpt = FirstChars(summary, 1000)
          /\ calls[i].svc = "dynamodb.put_item" =>
                /\ calls[i].arg.Texte = text
                /\ calls[i].arg.Resume = summary
                /\ calls[i].arg.NomFichier = key
    /\ (~ ENABLE_OPENROUTER /\ text = [doc |-> "hello world", len |-> 11]) =>
          /\ \A i \in 1..Len(PutItems) :
                /\ PutItems[i].arg.Texte = [doc |-> "hello world", len |-> 11]
                /\ PutItems[i].arg.Resume = [doc |-> "Résumé non généré.", len |-> 18]
          /\ (ENABLE_DYNAMODB /\ "TABLE_NAME" \in environ
                  /\ pc \in {"notify", "return", "done"}) => Len(PutItems) = 1
          /\ Done => result.statusCode = 200

C17_Witness ==
    /\ Done
    /\ text.len = 1500
    /\ summary.len = 1200
    /\ Len(LlmCalls) = 1 /\ LlmCalls[1].arg.content.len = 1000
    /\ Len(PutItems) = 1
    /\ PutItems[1].arg.Texte.len = 1500 /\ PutItems[1].arg.Resume.len = 1200
    /\ Len(CallsTo("sns.publish")) = 1
    /\ CallsTo("sns.publish")[1].arg.Message.excerpt.len = 1000

\* C18: a provisioning invocation attempts at most one callback PUT, and once
\* the reporter was invoked with SUCCESS no FAILED payload is transmitted:
\* when the SUCCESS response cannot be built (the reporter raises and is
\* invoked again with FAILED) or cannot be transmitted, no PUT carries FAILED.
C18_NoFailedAfterSuccess ==
    ProvisioningShape(event) =>
        /\ Len(Puts) <= 1
        /\ (\E i \in 1..Len(reports) : reports[i].status = "SUCCESS") =>
              \A j \in 1..Len(Puts) : Puts[j].arg.body.Status # "FAILED"
        /\ \A i \in 1..Len(reports) :
              (reports[i].status = "FAILED" /\ i > 1) =>
                  reports[i].outcome = "raise" /\ reports[i-1].outcome = "raise"

C18_Witness ==
    /\ Done
    /\ \E i \in 1..Len(calls) : calls[i].svc = "s3.put_bucket_policy" /\ calls[i].ok
    /\ Len(reports) = 1
    /\ reports[1].status = "SUCCESS" /\ reports[1].outcome = "False"
    /\ Len(Puts) = 1
    /\ ~ Puts[1].ok

PolicyApplies == CallsTo("s3.put_bucket_policy")
PolicyRemovals == CallsTo("s3.delete_bucket_policy")

\* C19: the bucket policy is touched only as the request type prescribes.
\* Create and Update issue at most one apply, on the bucket named in the
\* request, and no removal, and the apply precedes every callback PUT (a
\* SUCCESS PUT follows an apply that succeeded); Delete issues at most one
\* removal and no apply; a provisioning invocation of another request type
\* and every invocation that is not a provisioning one issue neither.
C19_PolicyTouchedAsPrescribed ==
    /\ (ProvisioningShape(event) /\ event["RequestType"] \in {"Create", "Update"}) =>
          /\ Len(PolicyApplies) <= 1
          /\ Len(PolicyRemovals) = 0
          /\ \A i \in 1..Len(PolicyApplies) :
                PolicyApplies[i].arg.Bucket = event["ResourceProperties"]["BucketName"]
          /\ \A i, j \in 1..Len(calls) :
                (calls[i].svc = "http.PUT" /\ calls[j].svc = "s3.put_bucket_policy")
                    => j < i
          /\ \A i \in 1..Len(Puts) :
                Puts[i].arg.body.Status = "SUCCESS" =>
                    Len(PolicyApplies) = 1 /\ PolicyApplies[1].ok
    /\ (ProvisioningShape(event) /\ event["RequestType"] = "Delete") =>
          /\ Len(PolicyRemovals) <= 1
          /\ Len(PolicyApplies) = 0
          /\ \A i \in 1..Len(PolicyRemovals) :
                PolicyRemovals[i].arg.Bucket = event["ResourceProperties"]["BucketName"]
    /\ (ProvisioningShape(event)
            /\ event["RequestType"] \notin {"Create", "Update", "Delete"}) =>
          Len(PolicyApplies) = 0 /\ Len(PolicyRemovals) = 0
    /\ ~ ProvisioningShape(event) =>
          Len(PolicyApplies) = 0 /\ Len(PolicyRemovals) = 0

C19_Witness ==
    /\ Done
    /\ ProvisioningShape(event)
    /\ event["RequestType"] = "Update"
    /\ Len(calls) = 2
    /\ calls[1].svc = "s3.put_bucket_policy" /\ calls[1].ok
    /\ calls[2].svc = "http.PUT" /\ calls[2].arg.body.Status = "SUCCESS"

\* lambda_handler has returned: a dict (lines 190-193, 198-201) or the None of
\* line 126, and no exception left it
Returned ==
    /\ Done
    /\ result.kind \in {"dict", "None"}
    /\ "lambda_handler" \notin escaped

\* the external calls made so far stay within the per-invocation bounds
CallsBounded ==
    \/ /\ Len(CallsTo("s3.get_object")) <= 1
       /\ Len(CallsTo("ssm.get_parameter")) <= 3
       /\ Len(CallsTo("openrouter.chat.completions.create")) <= 3
       /\ Len(CallsTo("dynamodb.put_item")) <= 1
       /\ Len(CallsTo("sns.publish")) <= 1
       /\ ~ CalledAnyOf(PolicyServices)
       /\ Len(CallsTo("http.PUT")) = 0
    \/ /\ Len(CallsTo("s3.put_bucket_policy"))
            + Len(CallsTo("s3.delete_bucket_policy")) <= 1
       /\ Len(CallsTo("http.PUT")) <= 1
       /\ ~ CalledAnyOf(IngestionServices)

\* C20: provided every external call returns or raises, every invocation ends
\* with lambda_handler returning a result, and it never makes more than 1
\* fetch, 3 credential retrievals, 3 LLM calls, 1 write and 1 publish, or more
\* than 1 policy call and 1 callback PUT.
C20_TerminatesWithBoundedCalls == [] CallsBounded /\ <> Returned

C20_Witness ==
    /\ Returned
    /\ Len(CallsTo("s3.get_object")) = 1
    /\ Len(CallsTo("ssm.get_parameter")) = 3
    /\ Len(CallsTo("openrouter.chat.completions.create")) = 3
    /\ Len(CallsTo("dynamodb.put_item")) = 1
    /\ Len(CallsTo("sns.publish")) = 1

====
